---- MODULE Spec2Model ----
(***************************************************************************)
(* blind-order-backend: rooms of a cooperative "play the numbers in        *)
(* ascending order" game.  The state is the SQLite database (rooms and     *)
(* players tables), the open sockets and the messages the last handler     *)
(* emitted; a message to a socket.io channel is a message addressed to the *)
(* room id.  Every socket handler and HTTP route is one                    *)
(* action: better-sqlite3 is synchronous and no handler awaits, so a       *)
(* handler runs to completion before the next one starts.                  *)
(***************************************************************************)
EXTENDS Integers, Sequences, FiniteSets, TLC

(* ------------------------------ bounds -------------------------------- *)
\* numbers are sampled from MinNumber..DealMax instead of MinNumber..MaxNumber
DealMax == 4
\* the same bound where three players are seated
DealMaxSeats == 3
\* the same bound where two rooms or waiting messages are explored
DealMaxSmall == 2
\* a handler is not explored when it would leave more than MaxLog events
MaxLog == 4
\* the same bound where the game is not what is explored
MaxLogSeats == 2
\* the same bound where waiting messages are explored
MaxLogQueue == 3
\* a failing move is not explored when it would take lives below -MaxDebt
MaxDebt == 1
\* play-number messages that wait for the event loop at one time
MaxPending == 2
\* the event log bound where what follows a victory is explored
MaxLogVictory == 7
\* the same bound where persistence calls fail
MaxLogFaults == 2
\* failing moves are explored down to -MaxDebtLog lives where the event log
\* is filled to its capacity
MaxDebtLog == 26

(* ------------------------- program constants -------------------------- *)
MinNumber == 1
MaxNumber == 100
AvailableNumbers == 100
MinPlayers == 2
MaxEvents == 50
MinLives == 1
MaxLives == 10
MinPerPlayer == 1
MaxPerPlayer == 20

RoomIds == {"A", "B"}
SocketIds == {"s1", "s2", "s3"}

\* request bodies of POST /rooms
Body(maxLives, numbersPerPlayer) ==
    [maxLives |-> maxLives, numbersPerPlayer |-> numbersPerPlayer]

\* the part of the system a specification explores: rooms, sockets, request
\* bodies, the numbers that are dealt and played, and the event log bound
Scopes ==
    [game  |-> [rooms |-> {"A"}, sockets |-> {"s1", "s2"},
                bodies |-> {Body(1, 1), Body(2, 2), Body(1, 51)},
                deal |-> DealMax, log |-> MaxLog, debt |-> MaxDebt],
     seats |-> [rooms |-> {"A"}, sockets |-> SocketIds,
                bodies |-> {Body(1, 1)},
                deal |-> DealMaxSeats, log |-> MaxLogSeats,
                debt |-> MaxDebt],
     rooms |-> [rooms |-> RoomIds, sockets |-> {"s1", "s2"},
                bodies |-> {Body(1, 1)},
                deal |-> DealMaxSmall, log |-> MaxLogSeats,
                debt |-> MaxDebt],
     queue |-> [rooms |-> {"A"}, sockets |-> {"s1", "s2"},
                bodies |-> {Body(1, 1)},
                deal |-> DealMaxSmall, log |-> MaxLogQueue,
                debt |-> MaxDebt],
     victory |-> [rooms |-> {"A"}, sockets |-> {"s1", "s2"},
                bodies |-> {Body(2, 1)},
                deal |-> DealMaxSmall, log |-> MaxLogVictory,
                debt |-> MaxDebt],
     faults |-> [rooms |-> {"A"}, sockets |-> {"s1", "s2"},
                bodies |-> {Body(1, 1)},
                deal |-> DealMaxSmall, log |-> MaxLogFaults,
                debt |-> MaxDebt],
     log   |-> [rooms |-> {"A"}, sockets |-> {"s1", "s2"},
                bodies |-> {Body(1, 1)},
                deal |-> DealMaxSmall, log |-> MaxEvents,
                debt |-> MaxDebtLog]]

VARIABLES
    rooms,      \* rooms table: room id -> row
    players,    \* players table, rows in insertion (joined_at) order
    sockets,    \* socket id -> "open" | "closed"
    dealt,      \* history: room id -> numbers dealt by the last initializeGame
    out,        \* messages emitted by the last handler, in emission order
    pending,    \* play-number messages received and not handled yet
    was,        \* history: host and seats of the room the last handler was
                \* sent to, as they were before it ran
    scope       \* the explored part of the system, fixed by Init

Numbers == MinNumber..scope.deal

vars == <<rooms, players, sockets, dealt, out, pending, was, scope>>

(* ------------------------------ helpers ------------------------------- *)
Range(s) == {s[i] : i \in 1..Len(s)}

Includes(s, x) == \E i \in 1..Len(s) : s[i] = x

RECURSIVE Insert(_, _)
Insert(x, s) ==
    IF s = <<>> THEN <<x>>
    ELSE IF x <= Head(s) THEN <<x>> \o s
    ELSE <<Head(s)>> \o Insert(x, Tail(s))

\* Array.prototype.sort((a, b) => a - b)
RECURSIVE SortAsc(_)
SortAsc(s) == IF s = <<>> THEN <<>> ELSE Insert(Head(s), SortAsc(Tail(s)))

\* Array.prototype.flatMap(p => p.numbers)
RECURSIVE FlatNumbers(_)
FlatNumbers(ps) ==
    IF ps = <<>> THEN <<>> ELSE Head(ps).numbers \o FlatNumbers(Tail(ps))

\* Array.prototype.find(p => p.id === id) !== undefined
HasPlayer(ps, id) == \E i \in 1..Len(ps) : ps[i].id = id

\* data is the error text, the reason, the room or the game state
Msg(ev, to, data) == [ev |-> ev, to |-> to, data |-> data]
ToSocket(s) == <<"socket", s>>
ToRoom(r) == <<"room", r>>

Event(type, data) == [type |-> type, data |-> data]

\* the rooms table with no row
NoRooms == [r \in {} |-> {}]

(* ---------------------------- RoomService ----------------------------- *)
\* the database as one value
DB == [rooms |-> rooms, players |-> players]

createRoom(db, roomId, maxLives, numbersPerPlayer) ==
    [db EXCEPT !.rooms =
        [r \in DOMAIN db.rooms \cup {roomId} |->
            IF r = roomId
            THEN [lives |-> maxLives, maxLives |-> maxLives,
                  numbersPerPlayer |-> numbersPerPlayer, state |-> "lobby",
                  hostId |-> "", timeline |-> <<>>, gameEvents |-> <<>>]
            ELSE db.rooms[r]]]

\* the GameRoom object built from the room row and its player rows
getRoom(db, roomId) ==
    LET row == db.rooms[roomId]
        rows == SelectSeq(db.players, LAMBDA p : p.room_id = roomId)
    IN  [id |-> roomId,
         players |-> [i \in 1..Len(rows) |->
                        [id |-> rows[i].id, numbers |-> rows[i].numbers]],
         timeline |-> row.timeline,
         lives |-> row.lives,
         maxLives |-> row.maxLives,
         numbersPerPlayer |-> row.numbersPerPlayer,
         state |-> row.state,
         hostId |-> row.hostId,
         gameEvents |-> row.gameEvents]

\* UPDATE rooms ... WHERE id = ?; then UPDATE players SET numbers WHERE id = ?
updateRoom(db, room) ==
    [rooms |->
        [r \in DOMAIN db.rooms |->
            IF r = room.id
            THEN [db.rooms[r] EXCEPT !.lives = room.lives,
                                     !.state = room.state,
                                     !.timeline = room.timeline,
                                     !.gameEvents = room.gameEvents,
                                     !.hostId = room.hostId]
            ELSE db.rooms[r]],
     players |->
        [i \in 1..Len(db.players) |->
            IF HasPlayer(room.players, db.players[i].id)
            THEN [db.players[i] EXCEPT !.numbers =
                    (CHOOSE p \in Range(room.players) :
                        p.id = db.players[i].id).numbers]
            ELSE db.players[i]]]

\* DELETE FROM rooms WHERE id = ?; the players of the room go with it
\* (foreign key ... ON DELETE CASCADE)
deleteRoom(db, roomId) ==
    [rooms |-> [r \in DOMAIN db.rooms \ {roomId} |-> db.rooms[r]],
     players |-> SelectSeq(db.players, LAMBDA p : p.room_id # roomId)]

\* INSERT OR REPLACE INTO players: id is the primary key of the whole table
addPlayer(db, roomId, player) ==
    [db EXCEPT !.players =
        Append(SelectSeq(db.players, LAMBDA p : p.id # player.id),
               [id |-> player.id, room_id |-> roomId,
                numbers |-> player.numbers])]

\* DELETE FROM players WHERE id = ?
removePlayer(db, playerId) ==
    [db EXCEPT !.players = SelectSeq(db.players, LAMBDA p : p.id # playerId)]

setHost(db, roomId, hostId) ==
    [db EXCEPT !.rooms =
        [r \in DOMAIN db.rooms |->
            IF r = roomId THEN [db.rooms[r] EXCEPT !.hostId = hostId]
            ELSE db.rooms[r]]]

(* ----------------------------- GameEngine ------------------------------ *)
\* allNumbers is the shuffled sample of the generator (lines 48-61): any
\* arrangement of totalNumbers distinct numbers of the range
Samples(totalNumbers) ==
    {f \in [1..totalNumbers -> Numbers] :
        \A i, j \in 1..totalNumbers : i # j => f[i] # f[j]}

\* generateAllPlayerNumbers with slices that start one number after the
\* slice before
generateAllPlayerNumbersOverlap(numbersPerPlayer, playerCount, allNumbers) ==
    LET totalNumbers == playerCount * numbersPerPlayer
        range == MaxNumber - MinNumber + 1
    IN  IF totalNumbers > range
        THEN [throws |-> TRUE, hands |-> << >>]
        ELSE [throws |-> FALSE,
              hands |-> [playerIndex \in 1..playerCount |->
                SortAsc(SubSeq(allNumbers,
                               playerIndex,
                               playerIndex + numbersPerPlayer - 1))]]

\* [throws, hands]: hands is the list of sorted hands, one per player
generateAllPlayerNumbers(numbersPerPlayer, playerCount, allNumbers) ==
    LET totalNumbers == playerCount * numbersPerPlayer
        range == MaxNumber - MinNumber + 1
    IN  IF totalNumbers > range
        THEN [throws |-> TRUE, hands |-> << >>]
        ELSE [throws |-> FALSE,
              hands |-> [playerIndex \in 1..playerCount |->
                SortAsc(SubSeq(allNumbers,
                               (playerIndex - 1) * numbersPerPlayer + 1,
                               playerIndex * numbersPerPlayer))]]

\* [throws, room]: the room is left as it was when the generator throws
initializeGame(room, allNumbers) ==
    LET allPlayerNumbers ==
            generateAllPlayerNumbers(room.numbersPerPlayer, Len(room.players),
                                     allNumbers)
    IN  IF allPlayerNumbers.throws
        THEN [throws |-> TRUE, room |-> room]
        ELSE [throws |-> FALSE,
              room |-> [room EXCEPT
                !.players = [index \in 1..Len(room.players) |->
                    [room.players[index] EXCEPT
                        !.numbers = allPlayerNumbers.hands[index]]],
                !.timeline = << >>,
                !.lives = room.maxLives,
                !.state = "playing"]]

\* getNextExpectedNumber without the sort of the merged hands
getNextExpectedNumberUnsorted(room) ==
    LET unplayed == SelectSeq(FlatNumbers(room.players),
                              LAMBDA num : ~Includes(room.timeline, num))
    IN  IF unplayed = << >> THEN -1 ELSE Head(unplayed)

\* -1 when every held number is in the timeline
getNextExpectedNumber(room) ==
    LET allNumbers == SortAsc(FlatNumbers(room.players))
        unplayed == SelectSeq(allNumbers,
                              LAMBDA num : ~Includes(room.timeline, num))
    IN  IF unplayed = << >> THEN -1 ELSE Head(unplayed)

PlayerOf(room, playerId) ==
    CHOOSE p \in Range(room.players) : p.id = playerId

\* validateMove without the check of the expected number
validateMoveAnyOrder(room, playerId, number) ==
    IF room.state # "playing"
    THEN [valid |-> FALSE, error |-> "Game is not in playing state"]
    ELSE IF ~HasPlayer(room.players, playerId)
    THEN [valid |-> FALSE, error |-> "Player not found"]
    ELSE IF ~Includes(PlayerOf(room, playerId).numbers, number)
    THEN [valid |-> FALSE, error |-> "Player does not have this number"]
    ELSE IF Includes(room.timeline, number)
    THEN [valid |-> FALSE, error |-> "Number already played"]
    ELSE [valid |-> TRUE, error |-> ""]

\* "Expected other number" stands for the text "Expected <e>, got <n>"
validateMove(room, playerId, number) ==
    IF room.state # "playing"
    THEN [valid |-> FALSE, error |-> "Game is not in playing state"]
    ELSE IF ~HasPlayer(room.players, playerId)
    THEN [valid |-> FALSE, error |-> "Player not found"]
    ELSE IF ~Includes(PlayerOf(room, playerId).numbers, number)
    THEN [valid |-> FALSE, error |-> "Player does not have this number"]
    ELSE IF Includes(room.timeline, number)
    THEN [valid |-> FALSE, error |-> "Number already played"]
    ELSE IF number # getNextExpectedNumber(room)
    THEN [valid |-> FALSE, error |-> "Expected other number"]
    ELSE [valid |-> TRUE, error |-> ""]

\* makeMove that turns a room without lives to game-over and takes no life
makeMoveNoPenalty(room, playerId, number) ==
    LET validation == validateMove(room, playerId, number)
    IN  IF ~validation.valid
        THEN IF room.lives <= 0
             THEN [room |-> [room EXCEPT !.state = "game-over"],
                   success |-> FALSE, gameOver |-> TRUE,
                   victory |-> FALSE, error |-> validation.error]
             ELSE [room |-> room,
                   success |-> FALSE, gameOver |-> FALSE,
                   victory |-> FALSE, error |-> validation.error]
        ELSE LET played ==
                    [room EXCEPT
                        !.timeline = Append(@, number),
                        !.players = [i \in 1..Len(room.players) |->
                            IF room.players[i].id = playerId
                            THEN [room.players[i] EXCEPT !.numbers =
                                    SelectSeq(@, LAMBDA n : n # number)]
                            ELSE room.players[i]]]
                 allNumbersPlayed ==
                    \A i \in 1..Len(played.players) :
                        Len(played.players[i].numbers) = 0
             IN  IF allNumbersPlayed
                 THEN [room |-> [played EXCEPT !.state = "victory"],
                       success |-> TRUE, gameOver |-> FALSE,
                       victory |-> TRUE, error |-> ""]
                 ELSE [room |-> played,
                       success |-> TRUE, gameOver |-> FALSE,
                       victory |-> FALSE, error |-> ""]

\* makeMove that declares victory when the hand of the mover is empty
makeMoveOwnHand(room, playerId, number) ==
    LET validation == validateMove(room, playerId, number)
    IN  IF ~validation.valid
        THEN LET lost == [room EXCEPT !.lives = @ - 1]
             IN  IF lost.lives <= 0
                 THEN [room |-> [lost EXCEPT !.state = "game-over"],
                       success |-> FALSE, gameOver |-> TRUE,
                       victory |-> FALSE, error |-> validation.error]
                 ELSE [room |-> lost,
                       success |-> FALSE, gameOver |-> FALSE,
                       victory |-> FALSE, error |-> validation.error]
        ELSE LET played ==
                    [room EXCEPT
                        !.timeline = Append(@, number),
                        !.players = [i \in 1..Len(room.players) |->
                            IF room.players[i].id = playerId
                            THEN [room.players[i] EXCEPT !.numbers =
                                    SelectSeq(@, LAMBDA n : n # number)]
                            ELSE room.players[i]]]
                 ownHandPlayed ==
                    \A i \in 1..Len(played.players) :
                        played.players[i].id = playerId
                            => Len(played.players[i].numbers) = 0
             IN  IF ownHandPlayed
                 THEN [room |-> [played EXCEPT !.state = "victory"],
                       success |-> TRUE, gameOver |-> FALSE,
                       victory |-> TRUE, error |-> ""]
                 ELSE [room |-> played,
                       success |-> TRUE, gameOver |-> FALSE,
                       victory |-> FALSE, error |-> ""]

\* the room after the move and the result descriptor
makeMove(room, playerId, number) ==
    LET validation == validateMove(room, playerId, number)
    IN  IF ~validation.valid
        THEN LET lost == [room EXCEPT !.lives = @ - 1]
             IN  IF lost.lives <= 0
                 THEN [room |-> [lost EXCEPT !.state = "game-over"],
                       success |-> FALSE, gameOver |-> TRUE,
                       victory |-> FALSE, error |-> validation.error]
                 ELSE [room |-> lost,
                       success |-> FALSE, gameOver |-> FALSE,
                       victory |-> FALSE, error |-> validation.error]
        ELSE LET played ==
                    [room EXCEPT
                        !.timeline = Append(@, number),
                        !.players = [i \in 1..Len(room.players) |->
                            IF room.players[i].id = playerId
                            THEN [room.players[i] EXCEPT !.numbers =
                                    SelectSeq(@, LAMBDA n : n # number)]
                            ELSE room.players[i]]]
                 allNumbersPlayed ==
                    \A i \in 1..Len(played.players) :
                        Len(played.players[i].numbers) = 0
             IN  IF allNumbersPlayed
                 THEN [room |-> [played EXCEPT !.state = "victory"],
                       success |-> TRUE, gameOver |-> FALSE,
                       victory |-> TRUE, error |-> ""]
                 ELSE [room |-> played,
                       success |-> TRUE, gameOver |-> FALSE,
                       victory |-> FALSE, error |-> ""]

\* addGameEvent that keeps the oldest events of a full log
addGameEventDropsNewest(room, event) ==
    LET pushed == Append(room.gameEvents, event)
    IN  [room EXCEPT !.gameEvents =
            IF Len(pushed) > MaxEvents
            THEN SubSeq(pushed, 1, MaxEvents)
            ELSE pushed]

addGameEvent(room, event) ==
    LET pushed == Append(room.gameEvents, event)
    IN  [room EXCEPT !.gameEvents =
            IF Len(pushed) > MaxEvents
            THEN SubSeq(pushed, Len(pushed) - MaxEvents + 1, Len(pushed))
            ELSE pushed]

\* resetGame that keeps the event log
resetGameKeepsLog(room) ==
    [room EXCEPT
        !.players = [i \in 1..Len(room.players) |->
                        [room.players[i] EXCEPT !.numbers = << >>]],
        !.timeline = << >>,
        !.lives = room.maxLives,
        !.state = "lobby"]

resetGame(room) ==
    [room EXCEPT
        !.players = [i \in 1..Len(room.players) |->
                        [room.players[i] EXCEPT !.numbers = << >>]],
        !.timeline = << >>,
        !.lives = room.maxLives,
        !.state = "lobby",
        !.gameEvents = << >>]

\* the pairs <<played, total>> of 0..100 x 1..100 where 100 * played / total
\* is k + 1/2 and the double (played / total) * 100 lies just below it
\* (23 / 40 * 100 is 57.49999999999999)
HalfLost ==
    {<<23, 40>>, <<41, 40>>, <<51, 40>>, <<87, 40>>, <<97, 40>>,
     <<46, 80>>, <<82, 80>>}

\* Math.round((played / total) * 100) in double arithmetic, for total in
\* 1..100 and played in 0..100: halves go up, except where the product of
\* the doubles is below the half
RoundedPercent(played, total) ==
    IF <<played, total>> \in HalfLost
    THEN (100 * played) \div total
    ELSE (200 * played + total) \div (2 * total)

getGameState(room) ==
    LET allNumbers == SortAsc(FlatNumbers(room.players))
        totalNumbers == Len(room.players) * room.numbersPerPlayer
        playedNumbers == Len(room.timeline)
    IN  [state |-> room.state,
         lives |-> room.lives,
         maxLives |-> room.maxLives,
         timeline |-> room.timeline,
         progress |-> IF totalNumbers > 0
                      THEN RoundedPercent(playedNumbers, totalNumbers) ELSE 0,
         remainingNumbers |->
            SelectSeq(allNumbers, LAMBDA n : ~Includes(room.timeline, n)),
         gameEvents |-> room.gameEvents]

(* --------------------------- socket handlers --------------------------- *)
\* what a handler leaves behind: the database, the emitted messages and the
\* numbers it dealt
Done(db, msgs) == [db |-> db, out |-> msgs, deal |-> {}]

RoomNotFound(s) == Done(DB, <<Msg("error", ToSocket(s), "Room not found")>>)

RoomUpdated(room) == Msg("room-updated", ToRoom(room.id), room)

GameState(room, to) == Msg("game-state-updated", to, getGameState(room))

GameStateTo(room, to) ==
    IF room.state # "lobby" THEN <<GameState(room, to)>> ELSE << >>

\* joinRoom without the branch of the player who is seated already
joinRoomNoRejoin(db, s, roomId, isHost) ==
    LET room == getRoom(db, roomId)
    IN  IF room.state = "playing" /\ ~HasPlayer(room.players, s)
        THEN Done(db, <<Msg("error", ToSocket(s),
                            "Cannot join game in progress")>>)
        ELSE IF FALSE
        THEN Done(db, <<RoomUpdated(room)>>
                      \o GameStateTo(room, ToSocket(s)))
        ELSE LET player == [id |-> s, numbers |-> << >>]
                 pushed == [room EXCEPT !.players = Append(@, player)]
                 db1 == addPlayer(db, roomId, player)
                 becomesHost == isHost \/ room.hostId = ""
                 room2 == IF becomesHost
                          THEN [pushed EXCEPT !.hostId = s] ELSE pushed
                 db2 == IF becomesHost THEN setHost(db1, roomId, s) ELSE db1
             IN  Done(updateRoom(db2, room2),
                      <<RoomUpdated(room2)>>
                      \o GameStateTo(room2, ToSocket(s)))

\* joinRoom without the check of a game in progress
joinRoomAnyState(db, s, roomId, isHost) ==
    LET room == getRoom(db, roomId)
    IN  IF FALSE
        THEN Done(db, <<Msg("error", ToSocket(s),
                            "Cannot join game in progress")>>)
        ELSE IF HasPlayer(room.players, s)
        THEN Done(db, <<RoomUpdated(room)>>
                      \o GameStateTo(room, ToSocket(s)))
        ELSE LET player == [id |-> s, numbers |-> << >>]
                 pushed == [room EXCEPT !.players = Append(@, player)]
                 db1 == addPlayer(db, roomId, player)
                 becomesHost == isHost \/ room.hostId = ""
                 room2 == IF becomesHost
                          THEN [pushed EXCEPT !.hostId = s] ELSE pushed
                 db2 == IF becomesHost THEN setHost(db1, roomId, s) ELSE db1
             IN  Done(updateRoom(db2, room2),
                      <<RoomUpdated(room2)>>
                      \o GameStateTo(room2, ToSocket(s)))

\* joinRoom that makes a host of the first player only
joinRoomFirstOnly(db, s, roomId, isHost) ==
    LET room == getRoom(db, roomId)
    IN  IF room.state = "playing" /\ ~HasPlayer(room.players, s)
        THEN Done(db, <<Msg("error", ToSocket(s),
                            "Cannot join game in progress")>>)
        ELSE IF HasPlayer(room.players, s)
        THEN Done(db, <<RoomUpdated(room)>>
                      \o GameStateTo(room, ToSocket(s)))
        ELSE LET player == [id |-> s, numbers |-> << >>]
                 pushed == [room EXCEPT !.players = Append(@, player)]
                 db1 == addPlayer(db, roomId, player)
                 becomesHost == room.hostId = ""
                 room2 == IF becomesHost
                          THEN [pushed EXCEPT !.hostId = s] ELSE pushed
                 db2 == IF becomesHost THEN setHost(db1, roomId, s) ELSE db1
             IN  Done(updateRoom(db2, room2),
                      <<RoomUpdated(room2)>>
                      \o GameStateTo(room2, ToSocket(s)))

joinRoom(db, s, roomId, isHost) ==
    LET room == getRoom(db, roomId)
    IN  IF room.state = "playing" /\ ~HasPlayer(room.players, s)
        THEN Done(db, <<Msg("error", ToSocket(s),
                            "Cannot join game in progress")>>)
        ELSE IF HasPlayer(room.players, s)
        THEN Done(db, <<RoomUpdated(room)>>
                      \o GameStateTo(room, ToSocket(s)))
        ELSE LET player == [id |-> s, numbers |-> << >>]
                 pushed == [room EXCEPT !.players = Append(@, player)]
                 db1 == addPlayer(db, roomId, player)
                 becomesHost == isHost \/ room.hostId = ""
                 room2 == IF becomesHost
                          THEN [pushed EXCEPT !.hostId = s] ELSE pushed
                 db2 == IF becomesHost THEN setHost(db1, roomId, s) ELSE db1
             IN  Done(updateRoom(db2, room2),
                      <<RoomUpdated(room2)>>
                      \o GameStateTo(room2, ToSocket(s)))

\* startError without the check of the number of players
startErrorAnyPlayers(room, s) ==
    IF room.hostId # s THEN "Only host can start the game"
    ELSE IF Len(room.players) * room.numbersPerPlayer > AvailableNumbers
    THEN "Not enough unique numbers available"
    ELSE ""

\* the checks of the start-game handler that come before the game is dealt
startError(room, s) ==
    IF room.hostId # s THEN "Only host can start the game"
    ELSE IF Len(room.players) < MinPlayers
    THEN "Need at least 2 players to start"
    ELSE IF Len(room.players) * room.numbersPerPlayer > AvailableNumbers
    THEN "Not enough unique numbers available"
    ELSE ""

startGame(db, s, roomId, allNumbers) ==
    LET room == getRoom(db, roomId)
    IN  IF startError(room, s) # ""
        THEN Done(db, <<Msg("error", ToSocket(s), startError(room, s))>>)
        ELSE LET init == initializeGame(room, allNumbers)
             IN  IF init.throws
                 THEN Done(db, <<Msg("error", ToSocket(s),
                                     "Failed to start game")>>)
                 ELSE LET started ==
                            addGameEvent(init.room, Event("game-started", ""))
                      IN  [Done(updateRoom(db, started),
                                <<RoomUpdated(started),
                                  GameState(started, ToRoom(roomId))>>)
                             EXCEPT !.deal = Range(allNumbers)]

\* playNumber without the updateRoom that stores the move
playNumberNotStored(db, s, roomId, number) ==
    LET room == getRoom(db, roomId)
        result == makeMove(room, s, number)
    IN  Done(db, <<RoomUpdated(result.room),
                   GameState(result.room, ToRoom(roomId))>>)

\* playNumber that records the victory after every move in a room in victory
playNumberVictoryAgain(db, s, roomId, number) ==
    LET room == getRoom(db, roomId)
        result == makeMove(room, s, number)
        logged ==
            IF result.success
            THEN LET made == addGameEvent(result.room, Event("move-made", ""))
                 IN  IF result.room.state = "victory"
                     THEN addGameEvent(made, Event("game-ended", "victory"))
                     ELSE made
            ELSE LET failed ==
                        addGameEvent(result.room, Event("move-failed", ""))
                 IN  IF result.gameOver
                     THEN addGameEvent(failed, Event("game-ended", "defeat"))
                     ELSE IF result.room.state = "victory"
                     THEN addGameEvent(failed, Event("game-ended", "victory"))
                     ELSE failed
    IN  Done(updateRoom(db, logged),
             <<RoomUpdated(logged), GameState(logged, ToRoom(roomId))>>)

playNumber(db, s, roomId, number) ==
    LET room == getRoom(db, roomId)
        result == makeMove(room, s, number)
        logged ==
            IF result.success
            THEN LET made == addGameEvent(result.room, Event("move-made", ""))
                 IN  IF result.victory
                     THEN addGameEvent(made, Event("game-ended", "victory"))
                     ELSE made
            ELSE LET failed ==
                        addGameEvent(result.room, Event("move-failed", ""))
                 IN  IF result.gameOver
                     THEN addGameEvent(failed, Event("game-ended", "defeat"))
                     ELSE failed
    IN  Done(updateRoom(db, logged),
             <<RoomUpdated(logged), GameState(logged, ToRoom(roomId))>>)

\* resetGameHandler without the check of the host
resetGameHandlerAnySocket(db, s, roomId) ==
    LET room == getRoom(db, roomId)
        reset == addGameEvent(resetGame(room), Event("game-reset", ""))
    IN  Done(updateRoom(db, reset),
             <<RoomUpdated(reset), GameState(reset, ToRoom(roomId))>>)

resetGameHandler(db, s, roomId) ==
    LET room == getRoom(db, roomId)
    IN  IF room.hostId # s
        THEN Done(db, <<Msg("error", ToSocket(s),
                            "Only host can reset the game")>>)
        ELSE LET reset == addGameEvent(resetGame(room),
                                       Event("game-reset", ""))
             IN  Done(updateRoom(db, reset),
                      <<RoomUpdated(reset),
                        GameState(reset, ToRoom(roomId))>>)

Undefined == "undefined"

\* handlePlayerLeave that deletes the lobby of a host only when it is empty
handlePlayerLeaveLobbyKept(db, socketId, roomId) ==
    IF roomId = Undefined THEN Done(db, << >>)
    ELSE IF roomId \notin DOMAIN db.rooms THEN Done(db, << >>)
    ELSE LET room == getRoom(db, roomId)
             isHost == room.hostId = socketId
             wasInLobby == room.state = "lobby"
             left == [room EXCEPT !.players =
                        SelectSeq(@, LAMBDA p : p.id # socketId)]
             db1 == removePlayer(db, socketId)
         IN  IF FALSE
             THEN Done(deleteRoom(db1, roomId),
                       <<Msg("room-deleted", ToRoom(roomId),
                             "Host left during lobby")>>)
             ELSE IF Len(left.players) = 0
             THEN Done(deleteRoom(db1, roomId), << >>)
             ELSE LET promote == isHost /\ Len(left.players) > 0
                      room2 == IF promote
                               THEN [left EXCEPT !.hostId = left.players[1].id]
                               ELSE left
                      db2 == IF promote
                             THEN setHost(db1, roomId, left.players[1].id)
                             ELSE db1
                  IN  Done(updateRoom(db2, room2),
                           <<RoomUpdated(room2)>>
                           \o GameStateTo(room2, ToRoom(roomId)))

\* handlePlayerLeave that promotes the player who joined last
handlePlayerLeavePromotesLast(db, socketId, roomId) ==
    IF roomId = Undefined THEN Done(db, << >>)
    ELSE IF roomId \notin DOMAIN db.rooms THEN Done(db, << >>)
    ELSE LET room == getRoom(db, roomId)
             isHost == room.hostId = socketId
             wasInLobby == room.state = "lobby"
             left == [room EXCEPT !.players =
                        SelectSeq(@, LAMBDA p : p.id # socketId)]
             db1 == removePlayer(db, socketId)
         IN  IF isHost /\ wasInLobby
             THEN Done(deleteRoom(db1, roomId),
                       <<Msg("room-deleted", ToRoom(roomId),
                             "Host left during lobby")>>)
             ELSE IF Len(left.players) = 0
             THEN Done(deleteRoom(db1, roomId), << >>)
             ELSE LET promote == isHost /\ Len(left.players) > 0
                      room2 == IF promote
                               THEN [left EXCEPT !.hostId =
                                        left.players[Len(left.players)].id]
                               ELSE left
                      db2 == IF promote
                             THEN setHost(db1, roomId,
                                          left.players[Len(left.players)].id)
                             ELSE db1
                  IN  Done(updateRoom(db2, room2),
                           <<RoomUpdated(room2)>>
                           \o GameStateTo(room2, ToRoom(roomId)))

handlePlayerLeave(db, socketId, roomId) ==
    IF roomId = Undefined THEN Done(db, << >>)
    ELSE IF roomId \notin DOMAIN db.rooms THEN Done(db, << >>)
    ELSE LET room == getRoom(db, roomId)
             isHost == room.hostId = socketId
             wasInLobby == room.state = "lobby"
             left == [room EXCEPT !.players =
                        SelectSeq(@, LAMBDA p : p.id # socketId)]
             db1 == removePlayer(db, socketId)
         IN  IF isHost /\ wasInLobby
             THEN Done(deleteRoom(db1, roomId),
                       <<Msg("room-deleted", ToRoom(roomId),
                             "Host left during lobby")>>)
             ELSE IF Len(left.players) = 0
             THEN Done(deleteRoom(db1, roomId), << >>)
             ELSE LET promote == isHost /\ Len(left.players) > 0
                      room2 == IF promote
                               THEN [left EXCEPT !.hostId = left.players[1].id]
                               ELSE left
                      db2 == IF promote
                             THEN setHost(db1, roomId, left.players[1].id)
                             ELSE db1
                  IN  Done(updateRoom(db2, room2),
                           <<RoomUpdated(room2)>>
                           \o GameStateTo(room2, ToRoom(roomId)))

(* ------------------------ persistence failures ------------------------- *)
\* RoomService rethrows the error of a statement that fails, and no handler
\* runs in a transaction: what the calls before the failing one wrote stays
\* written, and the handler emits nothing after the failing call.

\* updateRoom up to and without the statement that fails: "updateRoom" is
\* the UPDATE of the room row, "updatePlayerNumbers" the first UPDATE of a
\* player row
updateRoomFailing(db, room, call) ==
    IF call = "updateRoom" THEN db
    ELSE [db EXCEPT !.rooms = updateRoom(db, room).rooms]

\* the calls of updateRoom that can fail
updateRoomCalls(room) ==
    {"updateRoom"}
    \cup (IF Len(room.players) > 0 THEN {"updatePlayerNumbers"} ELSE {})

\* the persistence calls a join-room makes
joinRoomCalls(db, s, roomId, isHost) ==
    LET room == getRoom(db, roomId)
    IN  IF HasPlayer(room.players, s) \/ room.state = "playing" THEN {}
        ELSE {"addPlayer", "updateRoom", "updatePlayerNumbers"}
             \cup (IF isHost \/ room.hostId = "" THEN {"setHost"} ELSE {})

joinRoomFailing(db, s, roomId, isHost, call) ==
    LET room == getRoom(db, roomId)
        player == [id |-> s, numbers |-> << >>]
        pushed == [room EXCEPT !.players = Append(@, player)]
        db1 == addPlayer(db, roomId, player)
        becomesHost == isHost \/ room.hostId = ""
        room2 == IF becomesHost THEN [pushed EXCEPT !.hostId = s] ELSE pushed
        db2 == IF becomesHost THEN setHost(db1, roomId, s) ELSE db1
    IN  IF call = "addPlayer" THEN Done(db, << >>)
        ELSE IF call = "setHost" THEN Done(db1, << >>)
        ELSE Done(updateRoomFailing(db2, room2, call), << >>)

\* the room a handler is about to store is the room it would broadcast
\* first; no room when the handler answers with an error
StoredBy(res) ==
    IF res.out # << >> /\ res.out[1].ev = "room-updated"
    THEN {res.out[1].data} ELSE {}

\* start-game catches the error of updateRoom and tells the requester
startGameFailing(db, s, room, call) ==
    Done(updateRoomFailing(db, room, call),
         <<Msg("error", ToSocket(s), "Failed to start game")>>)

\* play-number and reset-game do not catch it
storeFailing(db, room, call) == Done(updateRoomFailing(db, room, call), << >>)

\* the persistence calls a leave-room makes
handlePlayerLeaveCalls(db, socketId, roomId) ==
    IF roomId \notin DOMAIN db.rooms THEN {}
    ELSE LET room == getRoom(db, roomId)
             isHost == room.hostId = socketId
             left == SelectSeq(room.players, LAMBDA p : p.id # socketId)
         IN  {"removePlayer"}
             \cup (IF (isHost /\ room.state = "lobby") \/ Len(left) = 0
                   THEN {"deleteRoom"}
                   ELSE {"updateRoom", "updatePlayerNumbers"}
                        \cup (IF isHost THEN {"setHost"} ELSE {}))

handlePlayerLeaveFailing(db, socketId, roomId, call) ==
    LET room == getRoom(db, roomId)
        isHost == room.hostId = socketId
        wasInLobby == room.state = "lobby"
        left == [room EXCEPT !.players =
                    SelectSeq(@, LAMBDA p : p.id # socketId)]
        db1 == removePlayer(db, socketId)
    IN  IF call = "removePlayer" THEN Done(db, << >>)
        ELSE IF call = "deleteRoom"
        THEN Done(db1, IF isHost /\ wasInLobby
                       THEN <<Msg("room-deleted", ToRoom(roomId),
                                  "Host left during lobby")>>
                       ELSE << >>)
        ELSE IF call = "setHost" THEN Done(db1, << >>)
        ELSE LET room2 == IF isHost
                          THEN [left EXCEPT !.hostId = left.players[1].id]
                          ELSE left
                 db2 == IF isHost
                        THEN setHost(db1, roomId, left.players[1].id)
                        ELSE db1
             IN  Done(updateRoomFailing(db2, room2, call), << >>)

(* --------------------------------- Init -------------------------------- *)
InitScope(name) ==
    /\ rooms = NoRooms
    /\ players = << >>
    /\ sockets = [s \in SocketIds |-> "open"]
    /\ dealt = [r \in RoomIds |-> {}]
    /\ out = << >>
    /\ pending = << >>
    /\ was = [hostId |-> "", seats |-> 0]
    /\ scope = Scopes[name]

Init == InitScope("game")

(* -------------------------------- actions ------------------------------ *)
\* the numbers of a room's last deal are history while a game is on
Dealt(db, roomId, deal) ==
    [r \in RoomIds |->
        IF r \notin DOMAIN db.rooms \/ db.rooms[r].state = "lobby" THEN {}
        ELSE IF r = roomId /\ deal # {} THEN deal
        ELSE dealt[r]]

\* the bounds on what is explored
Explored(db) ==
    \A r \in DOMAIN db.rooms :
        /\ Len(db.rooms[r].gameEvents) <= scope.log
        /\ db.rooms[r].lives >= 0 - scope.debt

\* the host and the number of seats of a room, none where no room is
Was(roomId) ==
    IF roomId \in DOMAIN rooms
    THEN [hostId |-> rooms[roomId].hostId,
          seats |-> Len(getRoom(DB, roomId).players)]
    ELSE [hostId |-> "", seats |-> 0]

Commit(res, roomId) ==
    /\ Explored(res.db)
    /\ was' = Was(roomId)
    /\ rooms' = res.db.rooms
    /\ players' = res.db.players
    /\ dealt' = Dealt(res.db, roomId, res.deal)
    /\ out' = res.out
    /\ UNCHANGED scope

\* the status of the first answer of POST /rooms
postRoomStatus(maxLives, numbersPerPlayer) ==
    IF maxLives < MinLives \/ maxLives > MaxLives THEN 400
    ELSE IF numbersPerPlayer < MinPerPlayer \/ numbersPerPlayer > MaxPerPlayer
    THEN 400
    ELSE 200

\* POST /rooms: the validation answers 400 and goes on to create the room
PostRoom(roomId, maxLives, numbersPerPlayer) ==
    /\ roomId \notin DOMAIN rooms
    /\ Commit(Done(createRoom(DB, roomId, maxLives, numbersPerPlayer),
                   <<Msg("response", <<"http">>,
                         postRoomStatus(maxLives, numbersPerPlayer))>>),
              roomId)
    /\ UNCHANGED sockets

\* DELETE /rooms/:roomId
DeleteRoomRoute(roomId) ==
    /\ roomId \in DOMAIN rooms
    /\ Commit(Done(deleteRoom(DB, roomId), << >>), roomId)
    /\ UNCHANGED sockets

JoinRoom(s, roomId, isHost) ==
    /\ sockets[s] = "open"
    /\ Commit(IF roomId \in DOMAIN rooms
              THEN joinRoom(DB, s, roomId, isHost)
              ELSE RoomNotFound(s), roomId)
    /\ UNCHANGED sockets

StartInputs(s, roomId) ==
    IF roomId \in DOMAIN rooms /\ startError(getRoom(DB, roomId), s) = ""
    THEN Samples(Len(getRoom(DB, roomId).players)
                 * rooms[roomId].numbersPerPlayer)
    ELSE {<< >>}

StartGame(s, roomId) ==
    /\ sockets[s] = "open"
    /\ \E allNumbers \in StartInputs(s, roomId) :
            Commit(IF roomId \in DOMAIN rooms
                   THEN startGame(DB, s, roomId, allNumbers)
                   ELSE RoomNotFound(s), roomId)
    /\ UNCHANGED sockets

PlayNumber(s, roomId, number) ==
    /\ sockets[s] = "open"
    /\ Commit(IF roomId \in DOMAIN rooms
              THEN playNumber(DB, s, roomId, number)
              ELSE RoomNotFound(s), roomId)
    /\ UNCHANGED sockets

ResetGame(s, roomId) ==
    /\ sockets[s] = "open"
    /\ Commit(IF roomId \in DOMAIN rooms
              THEN resetGameHandler(DB, s, roomId)
              ELSE RoomNotFound(s), roomId)
    /\ UNCHANGED sockets

LeaveRoom(s, roomId) ==
    /\ sockets[s] = "open"
    /\ LET res == handlePlayerLeave(DB, s, roomId)
       IN  Commit([res EXCEPT !.out =
                        @ \o <<Msg("left-room", ToSocket(s), "")>>], roomId)
    /\ UNCHANGED sockets

\* the disconnect handler calls handlePlayerLeave with no room id
Disconnect(s) ==
    /\ sockets[s] = "open"
    /\ sockets' = [sockets EXCEPT ![s] = "closed"]
    /\ Commit(handlePlayerLeave(DB, s, Undefined), Undefined)

\* a message that arrives when no other waits is handled at once
Idle == pending = << >> /\ UNCHANGED pending

Next ==
    \/ \E r \in scope.rooms, b \in scope.bodies :
            PostRoom(r, b.maxLives, b.numbersPerPlayer) /\ Idle
    \/ \E r \in scope.rooms : DeleteRoomRoute(r) /\ Idle
    \/ \E s \in scope.sockets, r \in scope.rooms, h \in BOOLEAN :
            JoinRoom(s, r, h) /\ Idle
    \/ \E s \in scope.sockets, r \in scope.rooms : StartGame(s, r) /\ Idle
    \/ \E s \in scope.sockets, r \in scope.rooms, n \in Numbers :
            PlayNumber(s, r, n) /\ Idle
    \/ \E s \in scope.sockets, r \in scope.rooms : ResetGame(s, r) /\ Idle
    \/ \E s \in scope.sockets, r \in scope.rooms : LeaveRoom(s, r) /\ Idle
    \/ \E s \in scope.sockets : Disconnect(s) /\ Idle

\* socket.io hands a play-number message to the event loop while the
\* messages before it wait for their handler
Receive(s, roomId, number) ==
    /\ sockets[s] = "open"
    /\ Len(pending) < MaxPending
    /\ pending' = Append(pending,
                         [socket |-> s, roomId |-> roomId, number |-> number])
    /\ UNCHANGED <<rooms, players, sockets, dealt, out, was, scope>>

\* the event loop runs the handler of the oldest message to its end
Handle ==
    /\ pending # << >>
    /\ PlayNumber(Head(pending).socket, Head(pending).roomId,
                  Head(pending).number)
    /\ pending' = Tail(pending)

\* the handlers that seat players and start games, and the play-number
\* messages
NextQueue ==
    \/ \E r \in scope.rooms, b \in scope.bodies :
            PostRoom(r, b.maxLives, b.numbersPerPlayer) /\ Idle
    \/ \E s \in scope.sockets, r \in scope.rooms, h \in BOOLEAN :
            JoinRoom(s, r, h) /\ Idle
    \/ \E s \in scope.sockets, r \in scope.rooms : StartGame(s, r) /\ Idle
    \/ \E s \in scope.sockets, r \in scope.rooms : LeaveRoom(s, r) /\ Idle
    \/ \E s \in scope.sockets, r \in scope.rooms, n \in Numbers :
            Receive(s, r, n)
    \/ Handle

\* one room, two sockets, games of one or two numbers per player
Spec == Init /\ [][Next]_vars

\* one room, three sockets
SpecSeats == InitScope("seats") /\ [][Next]_vars

\* two rooms, two sockets
SpecRooms == InitScope("rooms") /\ [][Next]_vars

\* one room, two sockets, play-number messages that wait for their handler
SpecQueue == InitScope("queue") /\ [][NextQueue]_vars

JoinRoomFails(s, roomId, isHost, call) ==
    /\ sockets[s] = "open"
    /\ roomId \in DOMAIN rooms
    /\ call \in joinRoomCalls(DB, s, roomId, isHost)
    /\ Commit(joinRoomFailing(DB, s, roomId, isHost, call), roomId)
    /\ UNCHANGED sockets

StartGameFails(s, roomId, call) ==
    /\ sockets[s] = "open"
    /\ roomId \in DOMAIN rooms
    /\ \E allNumbers \in StartInputs(s, roomId) :
        \E room \in StoredBy(startGame(DB, s, roomId, allNumbers)) :
            /\ call \in updateRoomCalls(room)
            /\ Commit(startGameFailing(DB, s, room, call), roomId)
    /\ UNCHANGED sockets

PlayNumberFails(s, roomId, number, call) ==
    /\ sockets[s] = "open"
    /\ roomId \in DOMAIN rooms
    /\ \E room \in StoredBy(playNumber(DB, s, roomId, number)) :
            /\ call \in updateRoomCalls(room)
            /\ Commit(storeFailing(DB, room, call), roomId)
    /\ UNCHANGED sockets

ResetGameFails(s, roomId, call) ==
    /\ sockets[s] = "open"
    /\ roomId \in DOMAIN rooms
    /\ \E room \in StoredBy(resetGameHandler(DB, s, roomId)) :
            /\ call \in updateRoomCalls(room)
            /\ Commit(storeFailing(DB, room, call), roomId)
    /\ UNCHANGED sockets

\* the error leaves the handler before it confirms the leave
LeaveRoomFails(s, roomId, call) ==
    /\ sockets[s] = "open"
    /\ call \in handlePlayerLeaveCalls(DB, s, roomId)
    /\ Commit(handlePlayerLeaveFailing(DB, s, roomId, call), roomId)
    /\ UNCHANGED sockets

PersistenceCalls ==
    {"addPlayer", "removePlayer", "setHost", "deleteRoom", "updateRoom",
     "updatePlayerNumbers"}

\* the socket handlers, each of which may meet a persistence call that fails
NextFaults ==
    \/ \E r \in scope.rooms, b \in scope.bodies :
            PostRoom(r, b.maxLives, b.numbersPerPlayer) /\ Idle
    \/ \E s \in scope.sockets, r \in scope.rooms, h \in BOOLEAN :
            JoinRoom(s, r, h) /\ Idle
    \/ \E s \in scope.sockets, r \in scope.rooms : StartGame(s, r) /\ Idle
    \/ \E s \in scope.sockets, r \in scope.rooms, n \in Numbers :
            PlayNumber(s, r, n) /\ Idle
    \/ \E s \in scope.sockets, r \in scope.rooms : ResetGame(s, r) /\ Idle
    \/ \E s \in scope.sockets, r \in scope.rooms : LeaveRoom(s, r) /\ Idle
    \/ \E s \in scope.sockets, r \in scope.rooms, h \in BOOLEAN,
          call \in PersistenceCalls : JoinRoomFails(s, r, h, call) /\ Idle
    \/ \E s \in scope.sockets, r \in scope.rooms,
          call \in PersistenceCalls : StartGameFails(s, r, call) /\ Idle
    \/ \E s \in scope.sockets, r \in scope.rooms, n \in Numbers,
          call \in PersistenceCalls : PlayNumberFails(s, r, n, call) /\ Idle
    \/ \E s \in scope.sockets, r \in scope.rooms,
          call \in PersistenceCalls : ResetGameFails(s, r, call) /\ Idle
    \/ \E s \in scope.sockets, r \in scope.rooms,
          call \in PersistenceCalls : LeaveRoomFails(s, r, call) /\ Idle

\* one room, two sockets, persistence calls that fail
SpecFaults == InitScope("faults") /\ [][NextFaults]_vars

\* one room, two sockets, games of two lives and what follows their end
SpecVictory == InitScope("victory") /\ [][Next]_vars

\* games that are started from lobby and never reset: the play-number
\* messages of the two sockets fill the event log
NextLog ==
    \/ \E r \in scope.rooms, b \in scope.bodies :
            PostRoom(r, b.maxLives, b.numbersPerPlayer) /\ Idle
    \/ \E s \in scope.sockets, r \in scope.rooms :
            JoinRoom(s, r, FALSE) /\ Idle
    \/ \E s \in scope.sockets, r \in scope.rooms :
            /\ r \in DOMAIN rooms
            /\ rooms[r].state = "lobby"
            /\ StartGame(s, r) /\ Idle
    \/ \E s \in scope.sockets, r \in scope.rooms, n \in Numbers :
            PlayNumber(s, r, n) /\ Idle

\* one room, two sockets, an event log filled beyond its capacity
SpecLog == InitScope("log") /\ [][NextLog]_vars

(* ------------------------------- claims -------------------------------- *)
Existing == DOMAIN rooms
Seated(r) == getRoom(DB, r).players
Kept(r) == r \in DOMAIN rooms /\ r \in DOMAIN rooms'

StrictlyIncreasing(s) == \A i, j \in 1..Len(s) : i < j => s[i] < s[j]

\* the k smallest numbers of a set, ascending
RECURSIVE Smallest(_, _)
Smallest(S, k) ==
    IF k = 0 \/ S = {} THEN << >>
    ELSE LET m == CHOOSE x \in S : \A y \in S : x <= y
         IN  <<m>> \o Smallest(S \ {m}, k - 1)

\* the handler emitted one message, an error to socket s
ErrorOnlyTo(o, s) ==
    Len(o) = 1 /\ o[1].ev = "error" /\ o[1].to = ToSocket(s)

\* the handler emitted one message, the error with this text to socket s
ErrorIs(o, s, text) == ErrorOnlyTo(o, s) /\ o[1].data = text

\* C1: while a room is playing its timeline is strictly increasing (so it
\* holds no number twice), whatever joins, leaves, starts, moves and resets
\* came before.
C1_TimelineIncreasing ==
    \A r \in Existing :
        rooms[r].state = "playing" => StrictlyIncreasing(rooms[r].timeline)

\* C1 witness: a game in which two numbers were played and a player has left
C1_Witness ==
    \E r \in Existing :
        /\ rooms[r].state = "playing"
        /\ Len(rooms[r].timeline) >= 2
        /\ Len(Seated(r)) = 1

\* C2: while a room is playing, its timeline of length k is the k smallest
\* numbers dealt by the last start-game.
C2_TimelinePrefixOfDealt ==
    \A r \in Existing :
        rooms[r].state = "playing" =>
            rooms[r].timeline = Smallest(dealt[r], Len(rooms[r].timeline))

\* C3: in every room 0 <= lives <= maxLives.
C3_LivesInRange ==
    \A r \in Existing :
        0 <= rooms[r].lives /\ rooms[r].lives <= rooms[r].maxLives

\* C4: while a room stays playing its lives never increase from one
\* operation to the next, and no playing room has lives 0.
C4_LivesNonIncreasing ==
    [][\A r \in RoomIds :
        /\ (Kept(r) /\ rooms[r].state = "playing"
                    /\ rooms'[r].state = "playing")
                => rooms'[r].lives <= rooms[r].lives
        /\ (r \in DOMAIN rooms' /\ rooms'[r].state = "playing")
                => rooms'[r].lives > 0]_vars

\* C5: the hostId of every room is empty or the id of a player seated in
\* that room.
C5_HostSeated ==
    \A r \in Existing :
        rooms[r].hostId = "" \/ HasPlayer(Seated(r), rooms[r].hostId)

\* C6: a room changes state only lobby -> playing, playing -> victory,
\* playing -> game-over, and playing, game-over or victory -> lobby.
C6_StateMachine ==
    [][\A r \in RoomIds :
        (Kept(r) /\ rooms'[r].state # rooms[r].state) =>
            <<rooms[r].state, rooms'[r].state>> \in
                {<<"lobby", "playing">>, <<"playing", "victory">>,
                 <<"playing", "game-over">>, <<"playing", "lobby">>,
                 <<"game-over", "lobby">>, <<"victory", "lobby">>}]_vars

\* C8: a start-game from the host of a room that is not in lobby changes
\* neither the room nor the hands.
C8_StartOnlyInLobby ==
    [][\A s \in SocketIds, r \in RoomIds :
        (/\ r \in DOMAIN rooms
         /\ rooms[r].hostId = s
         /\ rooms[r].state # "lobby"
         /\ StartGame(s, r))
            => UNCHANGED <<rooms, players>>]_vars

\* C9: a start-game from the host of a room with fewer than 2 players, or
\* with playerCount x numbersPerPlayer above 100, changes neither the room
\* nor the hands and emits one error, to the requester.
C9_StartRefused ==
    [][\A s \in SocketIds, r \in RoomIds :
        (/\ r \in DOMAIN rooms
         /\ rooms[r].hostId = s
         /\ \/ Len(Seated(r)) < 2
            \/ Len(Seated(r)) * rooms[r].numbersPerPlayer > 100
         /\ StartGame(s, r))
            => (UNCHANGED <<rooms, players>> /\ ErrorOnlyTo(out', s))]_vars

\* C9 witness: the host of a room of two players asked for more numbers than
\* the range holds
C9_Witness ==
    \E s \in SocketIds, r \in Existing :
        /\ ErrorIs(out, s, "Not enough unique numbers available")
        /\ rooms[r].hostId = s
        /\ Len(Seated(r)) * rooms[r].numbersPerPlayer > 100
        /\ Len(Seated(r)) >= 2

\* C10: a start-game or reset-game from a socket that is not the host of the
\* room changes neither the room nor the hands and emits one error, to that
\* socket.
C10_OnlyHost ==
    [][\A s \in SocketIds, r \in RoomIds :
        (/\ r \in DOMAIN rooms
         /\ rooms[r].hostId # s
         /\ (StartGame(s, r) \/ ResetGame(s, r)))
            => (UNCHANGED <<rooms, players>> /\ ErrorOnlyTo(out', s))]_vars

\* C10 witness: a seated player who is not the host asked for a reset of a
\* game that is on
C10_Witness ==
    \E s \in SocketIds, r \in Existing :
        /\ ErrorIs(out, s, "Only host can reset the game")
        /\ rooms[r].hostId # s
        /\ HasPlayer(Seated(r), s)
        /\ rooms[r].state = "playing"
LastMove(log) ==
    IF log[Len(log)].type = "game-ended" /\ Len(log) >= 2
    THEN log[Len(log) - 1] ELSE log[Len(log)]

\* the log grew, or it is full and its oldest events were dropped
Grew(before, after) == Len(after) > Len(before) \/ Len(after) = MaxEvents

AllHandsEmpty(ps) == \A i \in 1..Len(ps) : Len(ps[i].numbers) = 0

\* C11: a play-number that fails validation, for whatever reason, takes
\* exactly one life, leaves the timeline and every hand as they were, turns
\* the room to game-over when lives reach 0, keeps the room and records a
\* move-failed event.
C11_FailedMove ==
    [][\A s \in scope.sockets, r \in scope.rooms, n \in Numbers :
        (/\ r \in DOMAIN rooms
         /\ ~validateMove(getRoom(DB, r), s, n).valid
         /\ PlayNumber(s, r, n))
            => /\ r \in DOMAIN rooms'
               /\ rooms'[r].lives = rooms[r].lives - 1
               /\ rooms'[r].timeline = rooms[r].timeline
               /\ players' = players
               /\ rooms'[r].lives = 0 => rooms'[r].state = "game-over"
               /\ Grew(rooms[r].gameEvents, rooms'[r].gameEvents)
               /\ LastMove(rooms'[r].gameEvents).type = "move-failed"]_vars

\* C11 witness: a move failed in a game of two lives and two seated players
\* (a number not held or out of order): one life is left, the game goes on
\* with nothing played
C11_Witness ==
    \E r \in Existing :
        /\ rooms[r].state = "playing"
        /\ rooms[r].maxLives = 2
        /\ rooms[r].lives = 1
        /\ rooms[r].timeline = << >>
        /\ Len(Seated(r)) = 2
        /\ LastMove(rooms[r].gameEvents).type = "move-failed"
        /\ Len(out) = 2
        /\ out[1].ev = "room-updated"
        /\ out[2].ev = "game-state-updated"

\* C12: a play-number that passes validation appends the number to the
\* timeline, takes exactly that number out of the hand of the mover, leaves
\* lives and the other hands as they were, and turns the room to victory
\* exactly when every hand is empty afterwards.
C12_SuccessfulMove ==
    [][\A s \in scope.sockets, r \in scope.rooms, n \in Numbers :
        (/\ r \in DOMAIN rooms
         /\ validateMove(getRoom(DB, r), s, n).valid
         /\ PlayNumber(s, r, n))
            => /\ r \in DOMAIN rooms'
               /\ rooms'[r].timeline = Append(rooms[r].timeline, n)
               /\ rooms'[r].lives = rooms[r].lives
               /\ Len(players') = Len(players)
               /\ \A i \in 1..Len(players) :
                    /\ players'[i].id = players[i].id
                    /\ players'[i].room_id = players[i].room_id
                    /\ players'[i].numbers =
                        IF players[i].id = s
                        THEN SelectSeq(players[i].numbers,
                                       LAMBDA m : m # n)
                        ELSE players[i].numbers
               /\ Len(PlayerOf(getRoom(DB', r), s).numbers) =
                    Len(PlayerOf(getRoom(DB, r), s).numbers) - 1
               /\ rooms'[r].state = "victory"
                    <=> AllHandsEmpty(getRoom(DB', r).players)
               /\ rooms'[r].state \in {"playing", "victory"}]_vars

\* C12 witness: the last held number was played and the game is won with
\* every hand empty
C12_Witness ==
    \E r \in Existing :
        /\ rooms[r].state = "victory"
        /\ Len(rooms[r].timeline) = 2
        /\ Len(Seated(r)) = 2
        /\ AllHandsEmpty(Seated(r))
        /\ LastMove(rooms[r].gameEvents).type = "move-made"

\* C13: a play-number sent to a room that is not playing is refused: one
\* error goes to the requester and lives, state, timeline, hands and event
\* log of the room stay as they were.
C13_PlayOnlyWhilePlaying ==
    [][\A s \in scope.sockets, r \in scope.rooms, n \in Numbers :
        (/\ r \in DOMAIN rooms
         /\ rooms[r].state # "playing"
         /\ PlayNumber(s, r, n))
            => (UNCHANGED <<rooms, players>> /\ ErrorOnlyTo(out', s))]_vars

\* the socket the last handler confirmed a leave to
LeftRoom(s) ==
    /\ Len(out) >= 1
    /\ out[Len(out)].ev = "left-room"
    /\ out[Len(out)].to = ToSocket(s)

\* C14: a join-room from a socket that is seated in the room already, in any
\* state of the room and with any host flag, leaves the rooms and the players
\* (seats, hands, host, lives, timeline, state, event log) as they were and
\* emits the room as it is, and the game state as it is when the room is not
\* in lobby.
C14_RejoinIdempotent ==
    [][\A s \in scope.sockets, r \in scope.rooms, h \in BOOLEAN :
        (/\ r \in DOMAIN rooms
         /\ HasPlayer(Seated(r), s)
         /\ JoinRoom(s, r, h))
            => /\ UNCHANGED <<rooms, players>>
               /\ Len(out') = (IF rooms[r].state = "lobby" THEN 1 ELSE 2)
               /\ out'[1].ev = "room-updated"
               /\ out'[1].data = getRoom(DB, r)
               /\ rooms[r].state # "lobby" =>
                    /\ out'[2].ev = "game-state-updated"
                    /\ out'[2].data = getGameState(getRoom(DB, r))]_vars

\* C14 witness: a seated player who holds a number joined again while the
\* game is on and was sent the game state
C14_Witness ==
    \E s \in SocketIds, r \in Existing :
        /\ rooms[r].state = "playing"
        /\ HasPlayer(Seated(r), s)
        /\ PlayerOf(getRoom(DB, r), s).numbers # << >>
        /\ was.seats = Len(Seated(r))
        /\ Len(out) = 2
        /\ out[2].ev = "game-state-updated"
        /\ out[2].to = ToSocket(s)

\* C15: a join-room from a socket with no seat in the room is refused while
\* the room is playing (rooms and players stay as they were, one error goes
\* to the requester); in every other state the new player is appended at the
\* end of the player list of the room.
C15_JoinWhilePlaying ==
    [][\A s \in scope.sockets, r \in scope.rooms, h \in BOOLEAN :
        (/\ r \in DOMAIN rooms
         /\ ~HasPlayer(Seated(r), s)
         /\ JoinRoom(s, r, h))
            => IF rooms[r].state = "playing"
               THEN UNCHANGED <<rooms, players>> /\ ErrorOnlyTo(out', s)
               ELSE /\ r \in DOMAIN rooms'
                    /\ getRoom(DB', r).players =
                        Append(Seated(r), [id |-> s, numbers |-> << >>])]_vars

\* C15 witness: a socket with no seat asked to join a game of two players
\* that is on and was refused
C15_Witness ==
    \E s \in SocketIds, r \in Existing :
        /\ ErrorIs(out, s, "Cannot join game in progress")
        /\ rooms[r].state = "playing"
        /\ ~HasPlayer(Seated(r), s)
        /\ Len(Seated(r)) = 2

\* C16: after the join of a socket that had no seat in the room, hostId is
\* the joining socket when the room had no host or the join carried
\* isHost = true, and is what it was otherwise.
C16_HostAssignment ==
    [][\A s \in scope.sockets, r \in scope.rooms, h \in BOOLEAN :
        (/\ r \in DOMAIN rooms
         /\ ~HasPlayer(Seated(r), s)
         /\ rooms[r].state # "playing"
         /\ JoinRoom(s, r, h))
            => /\ r \in DOMAIN rooms'
               /\ rooms'[r].hostId =
                    IF h \/ rooms[r].hostId = "" THEN s
                    ELSE rooms[r].hostId]_vars

\* C16 witness: a room with a seated host was joined with isHost = true and
\* the joining socket, last of the player list, is the host now
C16_Witness ==
    \E s \in SocketIds, r \in Existing :
        /\ was.hostId \notin {"", s}
        /\ HasPlayer(Seated(r), was.hostId)
        /\ Len(Seated(r)) = was.seats + 1
        /\ Seated(r)[Len(Seated(r))].id = s
        /\ rooms[r].hostId = s
        /\ Len(out) = 1
        /\ out[1].ev = "room-updated"

\* C17: when the host leaves a room that is in lobby the room is deleted with
\* all its seats, however many players are seated, room-deleted is sent to
\* the room, no room-updated is sent and so no new host is announced.
C17_HostLeavesLobby ==
    [][\A s \in scope.sockets, r \in scope.rooms :
        (/\ r \in DOMAIN rooms
         /\ rooms[r].hostId = s
         /\ rooms[r].state = "lobby"
         /\ LeaveRoom(s, r))
            => /\ r \notin DOMAIN rooms'
               /\ \A i \in 1..Len(players') : players'[i].room_id # r
               /\ out'[1].ev = "room-deleted"
               /\ out'[1].to = ToRoom(r)
               /\ \A i \in 1..Len(out') : out'[i].ev # "room-updated"]_vars

\* C17 witness: the host left a lobby of three seated players and the room
\* is gone
C17_Witness ==
    \E s \in SocketIds :
        /\ LeftRoom(s)
        /\ was.hostId = s
        /\ was.seats = 3
        /\ Existing = {}
        /\ players = << >>
        /\ out[1].ev = "room-deleted"

\* C18: after the disconnect of a socket that is seated in a room the socket
\* is seated in no room.
C18_DisconnectIsLeave ==
    [][\A s \in scope.sockets :
        (HasPlayer(players, s) /\ Disconnect(s))
            => ~HasPlayer(players', s)]_vars

\* C19: when the host leaves a room that is not in lobby and another player
\* is seated, the room stays and its host is the first, in join order, of the
\* players that remain.
C19_HostPromotion ==
    [][\A s \in scope.sockets, r \in scope.rooms :
        (/\ r \in DOMAIN rooms
         /\ rooms[r].hostId = s
         /\ rooms[r].state # "lobby"
         /\ \E i \in 1..Len(Seated(r)) : Seated(r)[i].id # s
         /\ LeaveRoom(s, r))
            => LET remaining == SelectSeq(Seated(r), LAMBDA p : p.id # s)
               IN  /\ r \in DOMAIN rooms'
                   /\ getRoom(DB', r).players = remaining
                   /\ rooms'[r].hostId = remaining[1].id]_vars

\* C19 witness: the host left a game of three players: two remain and the
\* first of them is the host
C19_Witness ==
    \E s \in SocketIds, r \in Existing :
        /\ LeftRoom(s)
        /\ was.hostId = s
        /\ was.seats = 3
        /\ rooms[r].state = "playing"
        /\ Len(Seated(r)) = 2
        /\ ~HasPlayer(Seated(r), s)
        /\ rooms[r].hostId = Seated(r)[1].id

\* C20: when a seated player who is not the host leaves a room that is
\* playing, or disconnects, and another player is seated, the room stays,
\* its hostId, state, lives and timeline are what they were, and room-updated
\* and game-state-updated are sent to the room.
C20_NonHostLeavesPlaying ==
    [][\A s \in scope.sockets, r \in scope.rooms :
        (/\ r \in DOMAIN rooms
         /\ rooms[r].state = "playing"
         /\ rooms[r].hostId # s
         /\ HasPlayer(Seated(r), s)
         /\ Len(Seated(r)) >= 2
         /\ (LeaveRoom(s, r) \/ Disconnect(s)))
            => /\ r \in DOMAIN rooms'
               /\ rooms'[r].hostId = rooms[r].hostId
               /\ rooms'[r].state = rooms[r].state
               /\ rooms'[r].lives = rooms[r].lives
               /\ rooms'[r].timeline = rooms[r].timeline
               /\ Len(out') >= 2
               /\ out'[1].ev = "room-updated"
               /\ out'[1].to = ToRoom(r)
               /\ out'[2].ev = "game-state-updated"
               /\ out'[2].to = ToRoom(r)]_vars

\* C21: a room in which a player was seated (it has a host since then) does
\* not exist with no player seated.
C21_NoEmptyRoom ==
    \A r \in Existing : rooms[r].hostId # "" => Len(Seated(r)) > 0

\* C22: a reset-game of the host, in any state of the room, empties every
\* hand and the timeline, sets lives to maxLives and the state to lobby,
\* leaves one game-reset event as the whole event log and leaves the player
\* list and hostId as they were.
C22_Reset ==
    [][\A s \in scope.sockets, r \in scope.rooms :
        (/\ r \in DOMAIN rooms
         /\ rooms[r].hostId = s
         /\ ResetGame(s, r))
            => /\ r \in DOMAIN rooms'
               /\ rooms'[r] =
                    [rooms[r] EXCEPT !.timeline = << >>,
                                     !.lives = rooms[r].maxLives,
                                     !.state = "lobby",
                                     !.gameEvents =
                                        <<Event("game-reset", "")>>]
               /\ players' =
                    [i \in 1..Len(players) |->
                        IF players[i].room_id = r
                        THEN [players[i] EXCEPT !.numbers = << >>]
                        ELSE players[i]]]_vars

\* C22 witness: the host has reset a room of two players: the room is in
\* lobby with all its lives, every hand empty and one event in the log
C22_Witness ==
    \E r \in Existing :
        /\ rooms[r].state = "lobby"
        /\ rooms[r].gameEvents = <<Event("game-reset", "")>>
        /\ rooms[r].lives = rooms[r].maxLives
        /\ Len(Seated(r)) = 2
        /\ AllHandsEmpty(Seated(r))
        /\ Len(out) = 2
        /\ out[2].ev = "game-state-updated"
        /\ out[2].data.state = "lobby"

\* C24: a join-room, leave-room, start-game, play-number or reset-game sent
\* to a room changes neither the existence nor the row (host, state, lives,
\* timeline) nor the player list of another room, also when the sender is
\* seated in that other room.
C24_RoomsIndependent ==
    [][\A a \in scope.rooms, b \in scope.rooms, s \in scope.sockets :
        (/\ a # b
         /\ a \in DOMAIN rooms
         /\ \/ \E h \in BOOLEAN : JoinRoom(s, b, h)
            \/ LeaveRoom(s, b)
            \/ StartGame(s, b)
            \/ \E n \in Numbers : PlayNumber(s, b, n)
            \/ ResetGame(s, b))
            => /\ a \in DOMAIN rooms'
               /\ rooms'[a] = rooms[a]
               /\ getRoom(DB', a).players = Seated(a)]_vars

\* C25: after every operation that changes a room and leaves it in place,
\* the room as stored is sent as room-updated to the room and, when its state
\* is not lobby, its game state is sent as game-state-updated to the room.
C25_Broadcast ==
    [][\A r \in scope.rooms :
        (/\ Kept(r)
         /\ rooms'[r] # rooms[r] \/ getRoom(DB', r).players # Seated(r))
            => /\ \E i \in 1..Len(out') :
                    /\ out'[i].ev = "room-updated"
                    /\ out'[i].to = ToRoom(r)
                    /\ out'[i].data = getRoom(DB', r)
               /\ rooms'[r].state # "lobby" =>
                    \E i \in 1..Len(out') :
                        /\ out'[i].ev = "game-state-updated"
                        /\ out'[i].to = ToRoom(r)]_vars

\* C26: every stored room has 1 <= maxLives <= 10 and
\* 1 <= numbersPerPlayer <= 20: a POST /rooms with a value outside these
\* ranges stores no room.
C26_StoredRoomsValid ==
    \A r \in Existing :
        /\ MinLives <= rooms[r].maxLives
        /\ rooms[r].maxLives <= MaxLives
        /\ MinPerPlayer <= rooms[r].numbersPerPlayer
        /\ rooms[r].numbersPerPlayer <= MaxPerPlayer

\* the numbers of all hands of a player list
Held(ps) == UNION {Range(ps[i].numbers) : i \in 1..Len(ps)}

\* a game-started event was appended to the event log of the room
Started(r) ==
    /\ Kept(r)
    /\ rooms'[r].gameEvents # rooms[r].gameEvents
    /\ rooms'[r].gameEvents[Len(rooms'[r].gameEvents)].type = "game-started"

\* C28: a start-game that starts a game in a room of n players leaves every
\* seated player with numbersPerPlayer numbers of 1..100 in ascending order,
\* the hands pairwise disjoint (n x numbersPerPlayer numbers in all), the
\* timeline empty, lives at maxLives and the state playing; with
\* n x numbersPerPlayer > 100 the generator throws and no game starts.
C28_Deal ==
    [][\A r \in scope.rooms :
        Kept(r) =>
            LET n == Len(Seated(r))
                k == rooms[r].numbersPerPlayer
                ps == getRoom(DB', r).players
            IN  /\ n * k > 100 =>
                    /\ generateAllPlayerNumbers(k, n, << >>).throws
                    /\ ~Started(r)
                /\ Started(r) =>
                    /\ Len(ps) = n
                    /\ \A i \in 1..n :
                        /\ ps[i].id = Seated(r)[i].id
                        /\ Len(ps[i].numbers) = k
                        /\ Range(ps[i].numbers) \subseteq 1..100
                        /\ StrictlyIncreasing(ps[i].numbers)
                    /\ \A i, j \in 1..n : i # j =>
                        Range(ps[i].numbers) \cap Range(ps[j].numbers) = {}
                    /\ Cardinality(Held(ps)) = n * k
                    /\ rooms'[r].timeline = << >>
                    /\ rooms'[r].lives = rooms'[r].maxLives
                    /\ rooms'[r].state = "playing"]_vars

\* C28 witness: a game of two players and two numbers each was dealt
C28_Witness ==
    \E r \in Existing :
        /\ rooms[r].state = "playing"
        /\ rooms[r].numbersPerPlayer = 2
        /\ Len(Seated(r)) = 2
        /\ Cardinality(Held(Seated(r))) = 4
        /\ rooms[r].timeline = << >>
        /\ Len(out) = 2
        /\ out[1].ev = "room-updated"
        /\ rooms[r].gameEvents[Len(rooms[r].gameEvents)].type
                = "game-started"

\* the numbers held in a room that are not in its timeline
Unplayed(room) == Held(room.players) \ Range(room.timeline)

\* C29: validateMove(room, playerId, number) is valid exactly when the room
\* is playing, playerId is seated and holds the number, the number is not in
\* the timeline and it is the least of the held numbers that are not in the
\* timeline; a move that is not valid comes with a reason.
C29_ValidateMove ==
    \A r \in Existing, s \in SocketIds, n \in MinNumber..(scope.deal + 1) :
        LET room == getRoom(DB, r)
            result == validateMove(room, s, n)
        IN  /\ result.valid <=>
                /\ room.state = "playing"
                /\ \E i \in 1..Len(room.players) :
                        /\ room.players[i].id = s
                        /\ n \in Range(room.players[i].numbers)
                /\ n \notin Range(room.timeline)
                /\ n \in Unplayed(room)
                /\ \A m \in Unplayed(room) : n <= m
            /\ ~result.valid => result.error # ""

\* C29 witness: in a game that is on one player holds the expected number
\* and the other holds a number that is out of order
C29_Witness ==
    \E r \in Existing, s1 \in SocketIds, s2 \in SocketIds, n \in Numbers,
       m \in Numbers :
        /\ s1 # s2
        /\ rooms[r].timeline # << >>
        /\ validateMove(getRoom(DB, r), s1, n).valid
        /\ validateMove(getRoom(DB, r), s2, m).error
                = "Expected other number"

\* C27: when a persistence call of a join-room, leave-room, start-game,
\* play-number or reset-game fails, nothing is sent to the room and the
\* stored rooms and players are what they were before the operation.
C27_FailureAborts ==
    [][\A s \in scope.sockets, r \in scope.rooms,
         call \in PersistenceCalls :
        (\/ \E h \in BOOLEAN : JoinRoomFails(s, r, h, call)
         \/ LeaveRoomFails(s, r, call)
         \/ StartGameFails(s, r, call)
         \/ \E n \in Numbers : PlayNumberFails(s, r, n, call)
         \/ ResetGameFails(s, r, call))
            => /\ UNCHANGED <<rooms, players>>
               /\ \A i \in 1..Len(out') : out'[i].to # ToRoom(r)]_vars

\* the game-ended events with result victory that follow the last
\* game-started event of a log
Victories(log) ==
    Cardinality({i \in 1..Len(log) :
        /\ log[i] = Event("game-ended", "victory")
        /\ \A j \in (i + 1)..Len(log) : log[j].type # "game-started"})

\* C23: the successful move that leaves every hand empty turns the room to
\* victory and records one game-ended event with result victory; no game has
\* two of them, and the one of a won game stays the only one whatever
\* follows, until a reset-game empties the log or a new game is started.
C23_VictoryOnce ==
    [][\A r \in scope.rooms :
        r \in DOMAIN rooms' =>
            /\ Victories(rooms'[r].gameEvents) <= 1
            /\ rooms'[r].state = "victory"
                    => Victories(rooms'[r].gameEvents) = 1
            /\ (/\ Kept(r)
                /\ Len(rooms'[r].timeline) > Len(rooms[r].timeline)
                /\ AllHandsEmpty(getRoom(DB', r).players))
                    => /\ rooms'[r].state = "victory"
                       /\ Victories(rooms[r].gameEvents) = 0
            /\ (/\ Kept(r)
                /\ Victories(rooms[r].gameEvents) = 1
                /\ rooms'[r].gameEvents # <<Event("game-reset", "")>>
                /\ ~Started(r))
                    => Victories(rooms'[r].gameEvents) = 1]_vars

\* C23 witness: a game of two lives was won and a move failed after that:
\* the room is still in victory, one life is left and the victory is in the
\* log once, before the failed move
C23_Witness ==
    \E r \in Existing :
        /\ rooms[r].state = "victory"
        /\ rooms[r].lives = 1
        /\ rooms[r].maxLives = 2
        /\ Victories(rooms[r].gameEvents) = 1
        /\ rooms[r].gameEvents[Len(rooms[r].gameEvents)].type = "move-failed"
        /\ rooms[r].gameEvents[Len(rooms[r].gameEvents) - 1]
                = Event("game-ended", "victory")

\* the last n elements of a sequence, all of them when it has fewer
LastN(s, n) == IF Len(s) > n THEN SubSeq(s, Len(s) - n + 1, Len(s)) ELSE s

\* the events a move or the start of a game appends, told from what the
\* step did to lives, timeline and state
Appended(r) ==
    IF rooms'[r].lives < rooms[r].lives
    THEN <<Event("move-failed", "")>>
         \o (IF rooms'[r].lives <= 0
             THEN <<Event("game-ended", "defeat")>> ELSE << >>)
    ELSE IF Len(rooms'[r].timeline) > Len(rooms[r].timeline)
    THEN <<Event("move-made", "")>>
         \o (IF rooms'[r].state = "victory"
             THEN <<Event("game-ended", "victory")>> ELSE << >>)
    ELSE IF rooms[r].state = "lobby" /\ rooms'[r].state = "playing"
    THEN <<Event("game-started", "")>>
    ELSE << >>

\* C30: the event log of a room never holds more than 50 events, and after
\* an operation that appends one or two events it is the 50 most recent of
\* the old events followed by the new ones, in that order.
C30_LogCapped ==
    [][\A r \in scope.rooms :
        /\ r \in DOMAIN rooms' => Len(rooms'[r].gameEvents) <= 50
        /\ (Kept(r) /\ Appended(r) # << >>)
            => rooms'[r].gameEvents =
                LastN(rooms[r].gameEvents \o Appended(r), 50)]_vars

\* C30 witness: the game-started event of a game that is over was dropped
\* from a log of 50 events that ends with a failed move and the end of the
\* game
C30_Witness ==
    \E r \in Existing :
        /\ Len(rooms[r].gameEvents) = 50
        /\ dealt[r] # {}
        /\ \A i \in 1..50 : rooms[r].gameEvents[i].type # "game-started"
        /\ rooms[r].gameEvents[49].type = "move-failed"
        /\ rooms[r].gameEvents[50].type = "game-ended"

\* C31: a room in playing has a seated player who holds a number that is not
\* in the timeline, so getNextExpectedNumber is not -1 and a successful move
\* is possible; a room where every hand is empty is not in playing.
C31_MovePossible ==
    \A r \in Existing :
        rooms[r].state = "playing" =>
            /\ Unplayed(getRoom(DB, r)) # {}
            /\ getNextExpectedNumber(getRoom(DB, r)) # -1
            /\ ~AllHandsEmpty(Seated(r))

\* the game-ended events that follow the last game-started event of a log
Endings(log) ==
    Cardinality({i \in 1..Len(log) :
        /\ log[i].type = "game-ended"
        /\ \A j \in (i + 1)..Len(log) : log[j].type # "game-started"})

\* C32: the log of a room where a game was started since the last reset
\* holds at most one game-ended event of that game: a play-number sent to a
\* room in game-over or victory appends no further game-ended event.
C32_EndedOnce ==
    \A r \in Existing :
        (\E i \in 1..Len(rooms[r].gameEvents) :
            rooms[r].gameEvents[i].type = "game-started")
                => Endings(rooms[r].gameEvents) <= 1

\* C33: the progress of getGameState is an integer of 0..100 in every
\* reachable state: 0 when playerCount x numbersPerPlayer is 0, and else the
\* integer nearest to 100 x |timeline| / (playerCount x numbersPerPlayer),
\* halves going up.
C33_Progress ==
    \A r \in Existing :
        LET room == getRoom(DB, r)
            total == Len(room.players) * room.numbersPerPlayer
            played == Len(room.timeline)
            k == getGameState(room).progress
        IN  /\ k \in 0..100
            /\ total = 0 => k = 0
            /\ total > 0 =>
                /\ 2 * total * k <= 200 * played + total
                /\ 200 * played + total < 2 * total * (k + 1)

\* C34: in every room, also one a failed persistence call has left behind,
\* the hands of two different seated players share no number and no held
\* number is in the timeline, so the remainingNumbers of getGameState are
\* the numbers of all hands, each once, in ascending order.
C34_HandsDisjoint ==
    \A r \in Existing :
        LET room == getRoom(DB, r)
            ps == room.players
            remaining == getGameState(room).remainingNumbers
        IN  /\ \A i, j \in 1..Len(ps) : i # j =>
                    Range(ps[i].numbers) \cap Range(ps[j].numbers) = {}
            /\ Held(ps) \cap Range(room.timeline) = {}
            /\ Range(remaining) = Held(ps)
            /\ StrictlyIncreasing(remaining)
            /\ remaining = SortAsc(FlatNumbers(ps))
====
